---------------------------- MODULE Spec2Model ----------------------------
(***************************************************************************)
(* A model of fetch_tables.py: the ACS Subject-table fetcher that decodes  *)
(* the column-coded API response into tidy records, attaches labels, sorts *)
(* and writes one CSV per (table, tract) unit.                             *)
(*                                                                         *)
(* Python values are represented as follows.                               *)
(*   str            a sequence of one-character strings                    *)
(*   Optional[str]  a record [none, s]: None_ or Str(s)                    *)
(*   number | None  a record [t, neg, ip, frac]: t is "null", "int" or     *)
(*                  "float"; the value is (-1)^neg * (ip + 0.frac), frac   *)
(*                  being the decimal digits after the point, without      *)
(*                  trailing zeros                                         *)
(*   dict           a function from field names to values                  *)
(*   list index     0-based, as in the source; a sequence s holds the      *)
(*                  element of index i at s[i + 1]                         *)
(***************************************************************************)
EXTENDS Integers, Sequences, FiniteSets, TLC

VARIABLES
    pc,             \* position of the running code
    args,           \* arguments of the function under call (function specs)
    result,         \* its return value, or a raised exception
    fp_round,       \* direction in which float() rounded the decimal literal
    api,            \* what the API holds for each (table, tract): a list of lists
    tables,         \* args.tables
    tracts,         \* args.tracts
    label_files,    \* labels/<table>.csv of every table: its rows, or absent
    ti,             \* index of the current table in args.tables (0-based)
    tri,            \* index of the current tract in args.tracts (0-based)
    label_map,      \* main: label_map of the current table
    attempt,        \* fetch_group_subject: the loop variable
    last_err,       \* fetch_group_subject: last_err
    requests,       \* number of session.get calls made for the current unit
    sleeps,         \* the time.sleep delays taken for the current unit, /backoff
    data,           \* main: the response returned by fetch_group_subject
    ri,             \* main: index of the next row of data[1:] to assemble
    all_records,    \* main: all_records of the current unit
    out_fieldnames, \* main: out_fieldnames of the current unit
    files,          \* the files written so far, in order of writing
    exit_status     \* how the process ended, once it has

vars == <<pc, args, result, fp_round, api, tables, tracts, label_files, ti, tri,
          label_map, attempt, last_err, requests, sleeps, data, ri, all_records,
          out_fieldnames, files, exit_status>>

\* the variables of main
driver_vars == <<api, tables, tracts, label_files, ti, tri, label_map, attempt,
                 last_err, requests, sleeps, data, ri, all_records,
                 out_fieldnames, files, exit_status>>

\* the variables of the function specifications
call_vars == <<args, result, fp_round>>

---------------------------------------------------------------------------
(* Python str and Optional[str] *)

None_ == [none |-> TRUE, s |-> <<>>]
Str(s) == [none |-> FALSE, s |-> s]

\* The characters of the model, in increasing code point order.
CodeOrder ==
    <<"\t", "\n", " ", "(", ")", "*", "+", "-", ".",
      "0", "1", "2", "3", "4", "5", "6", "7", "8", "9",
      "A", "B", "C", "D", "E", "F", "G", "I", "L", "M", "N", "O", "R", "S",
      "T", "U", "X", "Y", "_",
      "a", "b", "c", "f", "i", "n", "t", "y">>

Ord(c) == CHOOSE i \in 1..Len(CodeOrder) : CodeOrder[i] = c

Whitespace == {" ", "\t", "\n"}
DigitChars == {"0", "1", "2", "3", "4", "5", "6", "7", "8", "9"}
DigitVal(c) == Ord(c) - Ord("0")

Rep(c, n) == [i \in 1..n |-> c]

\* a < b for str: lexicographic by code point
RECURSIVE StrLess(_, _)
StrLess(a, b) ==
    IF b = <<>> THEN FALSE
    ELSE IF a = <<>> THEN TRUE
    ELSE IF Head(a) = Head(b) THEN StrLess(Tail(a), Tail(b))
    ELSE Ord(Head(a)) < Ord(Head(b))

RECURSIVE lstrip(_)
lstrip(s) == IF s # <<>> /\ Head(s) \in Whitespace THEN lstrip(Tail(s)) ELSE s

RECURSIVE rstrip(_)
rstrip(s) ==
    IF s # <<>> /\ s[Len(s)] \in Whitespace
    THEN rstrip(SubSeq(s, 1, Len(s) - 1)) ELSE s

\* str.strip()
strip(s) == rstrip(lstrip(s))

\* str.zfill(width): pad with zeros on the left, after a leading sign
zfill(s, width) ==
    IF Len(s) >= width THEN s
    ELSE IF s # <<>> /\ Head(s) \in {"+", "-"}
         THEN <<Head(s)>> \o Rep("0", width - Len(s)) \o Tail(s)
         ELSE Rep("0", width - Len(s)) \o s

LowerChar(c) ==
    CASE c = "A" -> "a" [] c = "B" -> "b" [] c = "C" -> "c" [] c = "F" -> "f"
      [] c = "I" -> "i" [] c = "N" -> "n" [] c = "T" -> "t" [] c = "Y" -> "y"
      [] OTHER -> c

lower(s) == [i \in 1..Len(s) |-> LowerChar(s[i])]

---------------------------------------------------------------------------
(* Numbers *)

Val(t, neg, ip, frac) == [t |-> t, neg |-> neg, ip |-> ip, frac |-> frac]

Null == Val("null", FALSE, 0, <<>>)
IntV(neg, ip) == Val("int", neg, ip, <<>>)
FloatV(neg, ip, frac) == Val("float", neg, ip, frac)
Raise(exc) == Val(exc, FALSE, 0, <<>>)

\* no value yet
NoResult == [t |-> "none"]

Exceptions == {"ValueError", "OverflowError", "IndexError"}
IsRaise(v) == v.t \in Exceptions

RECURSIVE DropTrailingZeros(_)
DropTrailingZeros(d) ==
    IF d # <<>> /\ d[Len(d)] = "0"
    THEN DropTrailingZeros(SubSeq(d, 1, Len(d) - 1)) ELSE d

RECURSIVE DigitsToNat(_)
DigitsToNat(d) ==
    IF d = <<>> THEN 0
    ELSE 10 * DigitsToNat(SubSeq(d, 1, Len(d) - 1)) + DigitVal(d[Len(d)])

\* position of the first "." of s, or Len(s) + 1
PointAt(s) ==
    IF \E i \in 1..Len(s) : s[i] = "."
    THEN CHOOSE i \in 1..Len(s) : s[i] = "." /\ \A j \in 1..(i - 1) : s[j] # "."
    ELSE Len(s) + 1

\* digits [ "." [digits] ] | "." digits
IsDecimalLiteral(s) ==
    /\ \A i \in 1..Len(s) : s[i] \in DigitChars \cup {"."}
    /\ Cardinality({i \in 1..Len(s) : s[i] = "."}) <= 1
    /\ \E i \in 1..Len(s) : s[i] \in DigitChars

S_inf == <<"i", "n", "f">>
S_infinity == <<"i", "n", "f", "i", "n", "i", "t", "y">>
S_nan == <<"n", "a", "n">>

\* float(s) for a str s. The characters of the model include no exponent
\* marker and no digit separator, so the literal is [sign] decimal, or one
\* of inf, infinity, nan in any case; anything else raises ValueError.
float(s) ==
    LET t == strip(s)
        signed == t # <<>> /\ Head(t) \in {"+", "-"}
        neg == signed /\ Head(t) = "-"
        body == IF signed THEN Tail(t) ELSE t
        p == PointAt(body)
    IN  IF lower(body) \in {S_inf, S_infinity} THEN Val("inf", neg, 0, <<>>)
        ELSE IF lower(body) = S_nan THEN Val("nan", neg, 0, <<>>)
        ELSE IF IsDecimalLiteral(body)
             THEN FloatV(neg, DigitsToNat(SubSeq(body, 1, p - 1)),
                         DropTrailingZeros(SubSeq(body, p + 1, Len(body))))
             ELSE Raise("ValueError")

\* int(v) for a float v: truncation toward zero
int(v) ==
    IF v.t = "inf" THEN Raise("OverflowError")
    ELSE IF v.t = "nan" THEN Raise("ValueError")
    ELSE IntV(v.neg /\ v.ip > 0, v.ip)

\* abs(v - int(v)), a float in [0, 1): the fraction of v
AbsFrac(v) == FloatV(FALSE, 0, v.frac)

\* the digits of 1e-9 after the point
EpsDigits == <<"0", "0", "0", "0", "0", "0", "0", "0", "1">>

\* d < 1e-9 for a float d in [0, 1). A decimal literal is rounded to the
\* nearest double, so a d whose decimal value is exactly 1e-9 compares as
\* the rounding went (fp_round < 0: below the double 1e-9).
LtEps(d) ==
    \/ \A i \in 1..Len(d.frac) : i <= Len(EpsDigits) => d.frac[i] = "0"
    \/ d.frac = EpsDigits /\ fp_round < 0

---------------------------------------------------------------------------
(* clean_num *)

Neg9(c) == <<"-">> \o Rep(c, 9)
Dot0 == <<".", "0">>

SUPPRESS_CODES ==
    {Neg9("5"), Neg9("5") \o Dot0, Neg9("8"), Neg9("8") \o Dot0,
     Neg9("6"), Neg9("6") \o Dot0, Neg9("2"), Neg9("2") \o Dot0}

ANNOTATION_TOKENS == {<<>>, <<"(", "X", ")">>, Rep("*", 5), <<"-">>, Rep("*", 2)}

\* mutant: the parsed float is returned as it is
clean_num_try_float(s) == float(s)

\* the body of the try block
clean_num_try(s) ==
    LET v == float(s) IN
    IF IsRaise(v) THEN v
    ELSE LET iv == int(v) IN
         IF IsRaise(iv) THEN iv
         ELSE IF LtEps(AbsFrac(v)) THEN iv ELSE v

\* mutant: the cell is not trimmed before the sentinel test
clean_num_nostrip(x) ==
    IF x.none THEN Null
    ELSE IF x.s \in SUPPRESS_CODES \/ x.s \in ANNOTATION_TOKENS THEN Null
         ELSE LET r == clean_num_try(x.s) IN
              IF IsRaise(r) THEN Null ELSE r

\* mutant: only ValueError is caught
clean_num_valueerror(x) ==
    IF x.none THEN Null
    ELSE LET s == strip(x.s) IN
         IF s \in SUPPRESS_CODES \/ s \in ANNOTATION_TOKENS THEN Null
         ELSE LET r == clean_num_try(s) IN
              IF r.t = "ValueError" THEN Null ELSE r

clean_num(x) ==
    IF x.none THEN Null
    ELSE LET s == strip(x.s) IN
         IF s \in SUPPRESS_CODES \/ s \in ANNOTATION_TOKENS THEN Null
         ELSE LET r == clean_num_try(s) IN
              IF IsRaise(r) THEN Null ELSE r

---------------------------------------------------------------------------
(* dict *)

EmptyDict == [k \in {} |-> 0]

\* d[k] = v
Put(d, k, v) == [x \in DOMAIN d \cup {k} |-> IF x = k THEN v ELSE d[x]]

---------------------------------------------------------------------------
(* parse_headers_for_table *)

\* h or ""
OrEmpty(x) == IF x.none THEN <<>> ELSE x.s

\* pat.match(h) for pat = ^(<table>)_C(\d{2})_(\d{3})([EM])$, the table
\* escaped. Without re.MULTILINE, $ matches at the end of the string and
\* before a newline that ends the string.
PatMatches(table, h) ==
    LET n == Len(table) IN
    /\ \/ Len(h) = n + 9
       \/ Len(h) = n + 10 /\ h[n + 10] = "\n"
    /\ SubSeq(h, 1, n) = table
    /\ h[n + 1] = "_" /\ h[n + 2] = "C"
    /\ h[n + 3] \in DigitChars /\ h[n + 4] \in DigitChars
    /\ h[n + 5] = "_"
    /\ h[n + 6] \in DigitChars /\ h[n + 7] \in DigitChars /\ h[n + 8] \in DigitChars
    /\ h[n + 9] \in {"E", "M"}

\* (group, line_no, kind) of m.groups()
PatGroups(table, h) ==
    LET n == Len(table) IN
    <<SubSeq(h, n + 3, n + 4), SubSeq(h, n + 6, n + 8), SubSeq(h, n + 9, n + 9)>>

\* fieldmap after the loop has run over headers[0 .. n-1]
RECURSIVE FieldmapAfter(_, _, _)
FieldmapAfter(table, headers, n) ==
    IF n = 0 THEN EmptyDict
    ELSE LET fieldmap == FieldmapAfter(table, headers, n - 1)
             h == OrEmpty(headers[n])
         IN  IF PatMatches(table, h)
             THEN Put(fieldmap, PatGroups(table, h), n - 1)
             ELSE fieldmap

parse_headers_for_table(table, headers) ==
    FieldmapAfter(table, headers, Len(headers))

---------------------------------------------------------------------------
(* row_ids *)

\* headers.index(colname): the 0-based position of the first header equal
\* to colname, or -1 where the source has None (ValueError caught)
safe_idx(headers, colname) ==
    IF \E i \in 1..Len(headers) : headers[i] = Str(colname)
    THEN (CHOOSE i \in 1..Len(headers) :
              /\ headers[i] = Str(colname)
              /\ \A j \in 1..(i - 1) : headers[j] # Str(colname)) - 1
    ELSE -1

S_GEO_ID == <<"G", "E", "O", "_", "I", "D">>
S_NAME == <<"N", "A", "M", "E">>

\* row[i]; IndexError past the end of the row
RowAt(row, i) == IF i + 1 <= Len(row) THEN row[i + 1] ELSE Raise("IndexError")

\* RowAt raised instead of giving a cell
CellRaised(c) == "t" \in DOMAIN c

\* mutant: the two identifiers are looked up under each other's header
row_ids_swapped(headers, row) ==
    LET gi == safe_idx(headers, S_NAME)
        ni == safe_idx(headers, S_GEO_ID)
    IN  <<IF gi # -1 THEN RowAt(row, gi) ELSE None_,
          IF ni # -1 THEN RowAt(row, ni) ELSE None_>>

\* (GEO_ID, NAME) of the row, each None when its header is absent
row_ids(headers, row) ==
    LET gi == safe_idx(headers, S_GEO_ID)
        ni == safe_idx(headers, S_NAME)
    IN  <<IF gi # -1 THEN RowAt(row, gi) ELSE None_,
          IF ni # -1 THEN RowAt(row, ni) ELSE None_>>

---------------------------------------------------------------------------
(* Schemas *)

G01 == <<"0", "1">>
G02 == <<"0", "2">>
G03 == <<"0", "3">>
G04 == <<"0", "4">>
G05 == <<"0", "5">>
G06 == <<"0", "6">>
KE == <<"E">>
KM == <<"M">>

DEFAULT_FIELDNAMES ==
    <<"GEO_ID", "NAME", "line_no", "label",
      "total", "total_moe", "total_pct", "total_pct_moe",
      "male", "male_moe", "male_pct", "male_pct_moe",
      "female", "female_moe", "female_pct", "female_pct_moe">>

\* mutant: the male and female groups are exchanged
default_builder_swapped(geo_id, name, ln, getv) ==
    [GEO_ID |-> geo_id, NAME |-> name, line_no |-> ln,
     total |-> getv[G01, KE, ln], total_moe |-> getv[G01, KM, ln],
     total_pct |-> getv[G02, KE, ln], total_pct_moe |-> getv[G02, KM, ln],
     male |-> getv[G05, KE, ln], male_moe |-> getv[G05, KM, ln],
     male_pct |-> getv[G04, KE, ln], male_pct_moe |-> getv[G04, KM, ln],
     female |-> getv[G03, KE, ln], female_moe |-> getv[G03, KM, ln],
     female_pct |-> getv[G06, KE, ln], female_pct_moe |-> getv[G06, KM, ln]]

default_builder(geo_id, name, ln, getv) ==
    [GEO_ID |-> geo_id, NAME |-> name, line_no |-> ln,
     total |-> getv[G01, KE, ln], total_moe |-> getv[G01, KM, ln],
     total_pct |-> getv[G02, KE, ln], total_pct_moe |-> getv[G02, KM, ln],
     male |-> getv[G03, KE, ln], male_moe |-> getv[G03, KM, ln],
     male_pct |-> getv[G04, KE, ln], male_pct_moe |-> getv[G04, KM, ln],
     female |-> getv[G05, KE, ln], female_moe |-> getv[G05, KM, ln],
     female_pct |-> getv[G06, KE, ln], female_pct_moe |-> getv[G06, KM, ln]]

S1701_builder(geo_id, name, ln, getv) ==
    [GEO_ID |-> geo_id, NAME |-> name, line_no |-> ln,
     total |-> getv[G01, KE, ln], total_moe |-> getv[G01, KM, ln],
     below_pl |-> getv[G02, KE, ln], below_pl_moe |-> getv[G02, KM, ln],
     below_pl_pct |-> getv[G03, KE, ln], below_pl_pct_moe |-> getv[G03, KM, ln]]

S1901_builder(geo_id, name, ln, getv) ==
    [GEO_ID |-> geo_id, NAME |-> name, line_no |-> ln,
     households |-> getv[G01, KE, ln], households_moe |-> getv[G01, KM, ln],
     families |-> getv[G02, KE, ln], families_moe |-> getv[G02, KM, ln],
     mc_families |-> getv[G03, KE, ln], mc_families_moe |-> getv[G03, KM, ln],
     nf_households |-> getv[G04, KE, ln], nf_households_moe |-> getv[G04, KM, ln]]

S2301_builder(geo_id, name, ln, getv) ==
    [GEO_ID |-> geo_id, NAME |-> name, line_no |-> ln,
     total |-> getv[G01, KE, ln], total_moe |-> getv[G01, KM, ln],
     lfp_rate |-> getv[G02, KE, ln], lfp_rate_moe |-> getv[G02, KM, ln],
     ep_ratio |-> getv[G03, KE, ln], ep_ratio_moe |-> getv[G03, KM, ln],
     unemployment_rate |-> getv[G04, KE, ln],
     unemployment_rate_moe |-> getv[G04, KM, ln]]

S2502_builder(geo_id, name, ln, getv) ==
    [GEO_ID |-> geo_id, NAME |-> name, line_no |-> ln,
     oc_units |-> getv[G01, KE, ln], oc_units_moe |-> getv[G01, KM, ln],
     oc_units_pct |-> getv[G02, KE, ln], oc_units_pct_moe |-> getv[G02, KM, ln],
     ooh_units |-> getv[G03, KE, ln], ooh_units_moe |-> getv[G03, KM, ln],
     ooh_units_pct |-> getv[G04, KE, ln], ooh_units_pct_moe |-> getv[G04, KM, ln],
     roh_units |-> getv[G05, KE, ln], roh_units_moe |-> getv[G05, KM, ln],
     roh_units_pct |-> getv[G06, KE, ln], roh_units_pct_moe |-> getv[G06, KM, ln]]

S2701_builder(geo_id, name, ln, getv) ==
    [GEO_ID |-> geo_id, NAME |-> name, line_no |-> ln,
     total |-> getv[G01, KE, ln], total_moe |-> getv[G01, KM, ln],
     insured |-> getv[G02, KE, ln], insured_moe |-> getv[G02, KM, ln],
     insured_pct |-> getv[G03, KE, ln], insured_pct_moe |-> getv[G03, KM, ln],
     uninsured |-> getv[G04, KE, ln], uninsured_moe |-> getv[G04, KM, ln],
     uninsured_pct |-> getv[G05, KE, ln], uninsured_pct_moe |-> getv[G05, KM, ln]]

\* mutant: the last declared field is not built
S2801_builder_short(geo_id, name, ln, getv) ==
    [GEO_ID |-> geo_id, NAME |-> name, line_no |-> ln,
     total |-> getv[G01, KE, ln], total_moe |-> getv[G01, KM, ln],
     total_pct |-> getv[G02, KE, ln]]

S2801_builder(geo_id, name, ln, getv) ==
    [GEO_ID |-> geo_id, NAME |-> name, line_no |-> ln,
     total |-> getv[G01, KE, ln], total_moe |-> getv[G01, KM, ln],
     total_pct |-> getv[G02, KE, ln], total_pct_moe |-> getv[G02, KM, ln]]

S1701 == <<"S", "1", "7", "0", "1">>
S1901 == <<"S", "1", "9", "0", "1">>
S2301 == <<"S", "2", "3", "0", "1">>
S2502 == <<"S", "2", "5", "0", "2">>
S2701 == <<"S", "2", "7", "0", "1">>
S2801 == <<"S", "2", "8", "0", "1">>

\* the registry; a builder is held by name and called through CallBuilder,
\* with getv as the function (group, kind, ln) -> value
TABLE_SCHEMAS ==
    (S1701 :> [fieldnames |->
                   <<"GEO_ID", "NAME", "line_no", "label", "total", "total_moe",
                     "below_pl", "below_pl_moe", "below_pl_pct", "below_pl_pct_moe">>,
               builder |-> "S1701"])
    @@
    (S1901 :> [fieldnames |->
                   <<"GEO_ID", "NAME", "line_no", "label",
                     "households", "households_moe", "families", "families_moe",
                     "mc_families", "mc_families_moe",
                     "nf_households", "nf_households_moe">>,
               builder |-> "S1901"])
    @@
    (S2301 :> [fieldnames |->
                   <<"GEO_ID", "NAME", "line_no", "label", "total", "total_moe",
                     "lfp_rate", "lfp_rate_moe", "ep_ratio", "ep_ratio_moe",
                     "unemployment_rate", "unemployment_rate_moe">>,
               builder |-> "S2301"])
    @@
    (S2502 :> [fieldnames |->
                   <<"GEO_ID", "NAME", "line_no", "label",
                     "oc_units", "oc_units_moe", "oc_units_pct", "oc_units_pct_moe",
                     "ooh_units", "ooh_units_moe", "ooh_units_pct", "ooh_units_pct_moe",
                     "roh_units", "roh_units_moe", "roh_units_pct", "roh_units_pct_moe">>,
               builder |-> "S2502"])
    @@
    (S2701 :> [fieldnames |->
                   <<"GEO_ID", "NAME", "line_no", "label", "total", "total_moe",
                     "insured", "insured_moe", "insured_pct", "insured_pct_moe",
                     "uninsured", "uninsured_moe", "uninsured_pct", "uninsured_pct_moe">>,
               builder |-> "S2701"])
    @@
    (S2801 :> [fieldnames |->
                   <<"GEO_ID", "NAME", "line_no", "label",
                     "total", "total_moe", "total_pct", "total_pct_moe">>,
               builder |-> "S2801"])

\* builder(geo_id, name, ln, getv)
CallBuilder(builder, geo_id, name, ln, getv) ==
    CASE builder = "default_builder" -> default_builder(geo_id, name, ln, getv)
      [] builder = "S1701" -> S1701_builder(geo_id, name, ln, getv)
      [] builder = "S1901" -> S1901_builder(geo_id, name, ln, getv)
      [] builder = "S2301" -> S2301_builder(geo_id, name, ln, getv)
      [] builder = "S2502" -> S2502_builder(geo_id, name, ln, getv)
      [] builder = "S2701" -> S2701_builder(geo_id, name, ln, getv)
      [] builder = "S2801" -> S2801_builder(geo_id, name, ln, getv)

\* mutant: every table gets the default schema
ResolveSchema_default(table) ==
    [fieldnames |-> DEFAULT_FIELDNAMES, builder |-> "default_builder"]

\* schema = TABLE_SCHEMAS.get(table), and the default when there is none
ResolveSchema(table) ==
    IF table \in DOMAIN TABLE_SCHEMAS
    THEN [fieldnames |-> TABLE_SCHEMAS[table].fieldnames,
          builder |-> TABLE_SCHEMAS[table].builder]
    ELSE [fieldnames |-> DEFAULT_FIELDNAMES, builder |-> "default_builder"]

\* main, when the response has no data row:
\* TABLE_SCHEMAS.get(table, {}).get("fieldnames", DEFAULT_FIELDNAMES)
FallbackFieldnames(table) ==
    LET schema == IF table \in DOMAIN TABLE_SCHEMAS THEN TABLE_SCHEMAS[table]
                  ELSE EmptyDict
    IN  IF "fieldnames" \in DOMAIN schema THEN schema.fieldnames
        ELSE DEFAULT_FIELDNAMES

---------------------------------------------------------------------------
(* build_records_for_row *)

Range(s) == {s[i] : i \in 1..Len(s)}

IdentFields == {"GEO_ID", "NAME", "line_no", "label"}

\* sorted(S) for a set of str
\* mutant: descending order
RECURSIVE sorted_desc(_)
sorted_desc(S) ==
    IF S = {} THEN <<>>
    ELSE LET m == CHOOSE x \in S : \A y \in S : ~StrLess(x, y)
         IN  <<m>> \o sorted_desc(S \ {m})

RECURSIVE sorted(_)
sorted(S) ==
    IF S = {} THEN <<>>
    ELSE LET m == CHOOSE x \in S : \A y \in S : ~StrLess(y, x)
         IN  <<m>> \o sorted(S \ {m})

\* mutant: all() for any()
keep_all(rec) == \A k \in DOMAIN rec \ IdentFields : rec[k] # Null

\* keep: at least one field other than the identifiers is not None
keep(rec) == \E k \in DOMAIN rec \ IdentFields : rec[k] # Null

\* the builder read a cell past the end of the row
RecordRaised(rec) == \E k \in DOMAIN rec \ IdentFields : IsRaise(rec[k])

\* (records, fieldnames), or IndexError
build_records_for_row(table, headers, row) ==
    LET ids == row_ids(headers, row)
        fieldmap == parse_headers_for_table(table, headers)
        line_nos == sorted({k[2] : k \in DOMAIN fieldmap})
        getv == [group \in [1..2 -> DigitChars], kind \in {KE, KM},
                 ln \in Range(line_nos) |->
                    IF <<group, ln, kind>> \in DOMAIN fieldmap
                    THEN LET cell == RowAt(row, fieldmap[<<group, ln, kind>>])
                         IN  IF CellRaised(cell) THEN cell ELSE clean_num(cell)
                    ELSE Null]
        schema == ResolveSchema(table)
        built == [i \in 1..Len(line_nos) |->
                     CallBuilder(schema.builder, ids[1], ids[2], line_nos[i], getv)]
    IN  IF \/ CellRaised(ids[1])
           \/ CellRaised(ids[2])
           \/ \E i \in 1..Len(built) : RecordRaised(built[i])
        THEN [exc |-> "IndexError", records |-> <<>>, fieldnames |-> <<>>]
        ELSE [exc |-> "", records |-> SelectSeq(built, keep),
              fieldnames |-> schema.fieldnames]

---------------------------------------------------------------------------
(* load_label_map_for_table *)

\* row.get(col) or ""
GetOrEmpty(row, col) ==
    IF col \in DOMAIN row /\ ~row[col].none THEN row[col].s ELSE <<>>

\* mapping after the first n rows of the reader
RECURSIVE LabelMapAfter(_, _)
LabelMapAfter(rows, n) ==
    IF n = 0 THEN EmptyDict
    ELSE LET mapping == LabelMapAfter(rows, n - 1)
             ln == strip(GetOrEmpty(rows[n], "line_no"))
             label == strip(GetOrEmpty(rows[n], "label"))
         IN  IF ln = <<>> THEN mapping
             ELSE Put(mapping, zfill(ln, 3), label)

\* a label file is [exists, rows]; a missing file gives the empty mapping
load_label_map_for_table(file) ==
    IF file.exists THEN LabelMapAfter(file.rows, Len(file.rows)) ELSE EmptyDict

---------------------------------------------------------------------------
(* main: label attachment, sort, write *)

\* mutant: the line number is looked up as it is
AttachLabel_nopad(rec, lmap) ==
    LET ln == IF "line_no" \in DOMAIN rec THEN rec.line_no ELSE <<>>
    IN  Put(rec, "label", IF ln \in DOMAIN lmap THEN lmap[ln] ELSE <<>>)

\* ln = (rec.get("line_no") or "").zfill(3); rec["label"] = label_map.get(ln, "")
AttachLabel(rec, lmap) ==
    LET ln == zfill(IF "line_no" \in DOMAIN rec THEN rec.line_no ELSE <<>>, 3)
    IN  Put(rec, "label", IF ln \in DOMAIN lmap THEN lmap[ln] ELSE <<>>)

AttachLabels(recs, lmap) == [i \in 1..Len(recs) |-> AttachLabel(recs[i], lmap)]

\* (d.get("GEO_ID") or "", d.get("line_no") or "")
SortKey(d) ==
    <<IF "GEO_ID" \in DOMAIN d /\ ~d.GEO_ID.none THEN d.GEO_ID.s ELSE <<>>,
      IF "line_no" \in DOMAIN d THEN d.line_no ELSE <<>>>>

\* a < b for the key tuples
KeyLess(a, b) == StrLess(a[1], b[1]) \/ (a[1] = b[1] /\ StrLess(a[2], b[2]))

\* mutant: the key is the line number alone
RecLess_line(x, y) == StrLess(SortKey(x)[2], SortKey(y)[2])

RecLess(x, y) == KeyLess(SortKey(x), SortKey(y))

\* rec placed after the last element that is not greater than it
InsertSorted(sq, rec) ==
    LET p == IF \E i \in 1..Len(sq) : RecLess(rec, sq[i])
             THEN (CHOOSE i \in 1..Len(sq) :
                       RecLess(rec, sq[i]) /\ \A j \in 1..(i - 1) : ~RecLess(rec, sq[j])) - 1
             ELSE Len(sq)
    IN  SubSeq(sq, 1, p) \o <<rec>> \o SubSeq(sq, p + 1, Len(sq))

\* list.sort(key=...): stable, ascending
RECURSIVE SortRecords(_)
SortRecords(recs) ==
    IF recs = <<>> THEN <<>>
    ELSE InsertSorted(SortRecords(SubSeq(recs, 1, Len(recs) - 1)), recs[Len(recs)])

\* rec.get(k)
RecGet(rec, k) == IF k \in DOMAIN rec THEN rec[k] ELSE None_

\* the decimal digits of a natural number
RECURSIVE NatDigits(_)
NatDigits(n) ==
    IF n < 10 THEN <<CHOOSE c \in DigitChars : DigitVal(c) = n>>
    ELSE NatDigits(n \div 10) \o <<CHOOSE c \in DigitChars : DigitVal(c) = n % 10>>

\* str(v) of an int or a float, as the csv writer takes it (floats in the
\* range repr prints without an exponent)
str_num(v) ==
    (IF v.neg THEN <<"-">> ELSE <<>>) \o NatDigits(v.ip) \o
    (IF v.t = "float"
     THEN <<".">> \o (IF v.frac = <<>> THEN <<"0">> ELSE v.frac)
     ELSE <<>>)

\* mutant: a null is written as the text None
csv_cell_none(k, v) ==
    IF v = None_ \/ v = Null THEN <<"N", "o", "n", "e">>
    ELSE IF k \in {"line_no", "label"} THEN v
    ELSE IF k \in {"GEO_ID", "NAME"} THEN v.s
    ELSE str_num(v)

\* the cell the csv writer emits for a value: None as the empty string, a
\* str as it is, a number as str(v). The value's type is told here by its
\* field: line_no and label hold a str, GEO_ID and NAME an Optional[str],
\* every other field a number or None.
csv_cell(k, v) ==
    IF v = None_ \/ v = Null THEN <<>>
    ELSE IF k \in {"line_no", "label"} THEN v
    ELSE IF k \in {"GEO_ID", "NAME"} THEN v.s
    ELSE str_num(v)

\* the file write_tidy_csv leaves: the header row and one row per record
write_tidy_csv(path, records, fieldnames) ==
    [path |-> path,
     header |-> fieldnames,
     rows |-> [i \in 1..Len(records) |->
                  [j \in 1..Len(fieldnames) |->
                      csv_cell(fieldnames[j], RecGet(records[i], fieldnames[j]))]],
     records |-> records]

OutPath(tract, table) == <<"output/">> \o tract \o <<"_">> \o table \o <<".csv">>

---------------------------------------------------------------------------
(* main and fetch_group_subject *)

retries == 3

\* what makes an attempt fail: session.get raises, raise_for_status raises,
\* resp.json() is not a list, is empty, or its first element is not a list
FailureKinds == {"network", "http_status", "not_a_list", "empty", "first_not_a_list"}

Running == exit_status = "running"

CurTable == tables[ti + 1]

\* mutant: every unit is the first tract's
CurTract_first == tracts[1]

CurTract == tracts[tri + 1]

\* for table in args.tables: label_map = load_label_map_for_table(table)
NextTable ==
    /\ Running /\ pc = "table_loop" /\ ti < Len(tables)
    /\ label_map' = load_label_map_for_table(label_files[CurTable])
    /\ tri' = 0
    /\ pc' = "tract_loop"
    /\ UNCHANGED <<call_vars, api, tables, tracts, label_files, ti, attempt,
                   last_err, requests, sleeps, data, ri, all_records,
                   out_fieldnames, files, exit_status>>

\* the table loop is over: main returns
ExitMain ==
    /\ Running /\ pc = "table_loop" /\ ti = Len(tables)
    /\ pc' = "exited"
    /\ exit_status' = "0"
    /\ UNCHANGED <<call_vars, api, tables, tracts, label_files, ti, tri,
                   label_map, attempt, last_err, requests, sleeps, data, ri,
                   all_records, out_fieldnames, files>>

\* for tract in args.tracts: enter fetch_group_subject
NextTract ==
    /\ Running /\ pc = "tract_loop"
    /\ IF tri < Len(tracts)
       THEN /\ pc' = "fetch"
            /\ attempt' = 0 /\ last_err' = "" /\ requests' = 0 /\ sleeps' = <<>>
            /\ UNCHANGED ti
       ELSE /\ pc' = "table_loop"
            /\ ti' = ti + 1
            /\ UNCHANGED <<attempt, last_err, requests, sleeps>>
    /\ UNCHANGED <<call_vars, api, tables, tracts, label_files, tri,
                   label_map, data, ri, all_records, out_fieldnames, files,
                   exit_status>>

\* mutant: a request that succeeds after a failure returns the header row
\* alone
Attempt_truncated ==
    /\ Running /\ pc = "fetch" /\ attempt < retries
    /\ requests' = requests + 1
    /\ \E outcome \in FailureKinds \cup {"ok"} :
           IF outcome = "ok"
           THEN /\ data' = IF attempt = 0 THEN api[<<CurTable, CurTract>>]
                           ELSE <<api[<<CurTable, CurTract>>][1]>>
                /\ ri' = 0
                /\ all_records' = <<>>
                /\ out_fieldnames' = <<>>
                /\ attempt' = 0
                /\ last_err' = ""
                /\ pc' = "rows"
           ELSE /\ last_err' = outcome
                /\ pc' = "sleep"
                /\ UNCHANGED <<attempt, data, ri, all_records, out_fieldnames>>
    /\ UNCHANGED <<call_vars, api, tables, tracts, label_files, ti, tri, label_map,
                   sleeps, files, exit_status>>

\* one iteration of the retry loop up to its return or its except clause;
\* the locals attempt and last_err end with the return
Attempt ==
    /\ Running /\ pc = "fetch" /\ attempt < retries
    /\ requests' = requests + 1
    /\ \E outcome \in FailureKinds \cup {"ok"} :
           IF outcome = "ok"
           THEN /\ data' = api[<<CurTable, CurTract>>]
                /\ ri' = 0
                /\ all_records' = <<>>
                /\ out_fieldnames' = <<>>
                /\ attempt' = 0
                /\ last_err' = ""
                /\ pc' = "rows"
           ELSE /\ last_err' = outcome
                /\ pc' = "sleep"
                /\ UNCHANGED <<attempt, data, ri, all_records, out_fieldnames>>
    /\ UNCHANGED <<call_vars, api, tables, tracts, label_files, ti, tri, label_map,
                   sleeps, files, exit_status>>

\* time.sleep(backoff * (attempt + 1)) in the except clause, then the next
\* iteration
Backoff ==
    /\ Running /\ pc = "sleep"
    /\ sleeps' = Append(sleeps, attempt + 1)
    /\ attempt' = attempt + 1
    /\ pc' = "fetch"
    /\ UNCHANGED <<call_vars, api, tables, tracts, label_files, ti, tri,
                   label_map, last_err, requests, data, ri, all_records,
                   out_fieldnames, files, exit_status>>

\* mutant: a unit that could not be fetched is skipped
FetchFailed_skip ==
    /\ Running /\ pc = "fetch" /\ attempt >= retries
    /\ pc' = "tract_loop"
    /\ tri' = tri + 1
    /\ UNCHANGED <<call_vars, api, tables, tracts, label_files, ti,
                   label_map, attempt, last_err, requests, sleeps, data, ri,
                   all_records, out_fieldnames, files, exit_status>>

\* the loop is exhausted: RuntimeError, which main does not catch
FetchFailed ==
    /\ Running /\ pc = "fetch" /\ attempt >= retries
    /\ pc' = "exited"
    /\ exit_status' = "RuntimeError"
    /\ UNCHANGED <<call_vars, api, tables, tracts, label_files, ti, tri,
                   label_map, attempt, last_err, requests, sleeps, data, ri,
                   all_records, out_fieldnames, files>>

\* one iteration of for r in rows: assemble, attach labels, extend
AssembleRow ==
    /\ Running /\ pc = "rows" /\ ri + 1 < Len(data)
    /\ LET built == build_records_for_row(CurTable, data[1], data[ri + 2]) IN
       IF built.exc # ""
       THEN /\ pc' = "exited"
            /\ exit_status' = built.exc
            /\ UNCHANGED <<ri, all_records, out_fieldnames>>
       ELSE /\ all_records' = all_records \o AttachLabels(built.records, label_map)
            /\ out_fieldnames' = IF out_fieldnames = <<>> THEN built.fieldnames
                                 ELSE out_fieldnames
            /\ ri' = ri + 1
            /\ UNCHANGED <<pc, exit_status>>
    /\ UNCHANGED <<call_vars, api, tables, tracts, label_files, ti, tri,
                   label_map, attempt, last_err, requests, sleeps, data, files>>

\* after the row loop: the no-rows fallback, the sort, the write, and on to
\* the next tract
SortAndWrite ==
    /\ Running /\ pc = "rows" /\ ri + 1 = Len(data)
    /\ LET fieldnames == IF out_fieldnames = <<>> THEN FallbackFieldnames(CurTable)
                         ELSE out_fieldnames
           sorted_records == SortRecords(all_records)
       IN  /\ out_fieldnames' = fieldnames
           /\ all_records' = sorted_records
           /\ files' = Append(files, write_tidy_csv(OutPath(CurTract, CurTable),
                                                    sorted_records, fieldnames))
    /\ tri' = tri + 1
    /\ pc' = "tract_loop"
    /\ UNCHANGED <<call_vars, api, tables, tracts, label_files, ti,
                   label_map, attempt, last_err, requests, sleeps, data, ri,
                   exit_status>>

Next ==
    \/ NextTable
    \/ NextTract
    \/ Attempt
    \/ Backoff
    \/ FetchFailed
    \/ AssembleRow
    \/ SortAndWrite
    \/ ExitMain

---------------------------------------------------------------------------
(* Strings used as inputs *)

S0101 == <<"S", "0", "1", "0", "1">>
S1501 == <<"S", "1", "5", "0", "1">>
G07 == <<"0", "7">>
L001 == <<"0", "0", "1">>
L002 == <<"0", "0", "2">>
L010 == <<"0", "1", "0">>
H_UNRELATED == <<"U", "N", "R", "E", "L", "A", "T", "E", "D">>
S_5 == <<"5">>
S_X == <<"(", "X", ")">>
S_42 == <<"4", "2">>
S_42_0 == <<"4", "2", ".", "0">>
S_3_7 == <<"3", ".", "7">>
S_abc == <<"a", "b", "c">>
S_A == <<"A">>
S_B == <<"B">>
S_AB == <<"A", "B">>
S_N == <<"N">>

\* the variable name of (group, line, kind) in a table
Hdr(table, g, l, k) == table \o <<"_", "C">> \o g \o <<"_">> \o l \o k

---------------------------------------------------------------------------
(* The function specifications keep the driver's variables at rest. *)

DriverAtRest ==
    /\ api = <<>> /\ tables = <<>> /\ tracts = <<>> /\ label_files = <<>>
    /\ ti = 0 /\ tri = 0 /\ label_map = <<>>
    /\ attempt = 0 /\ last_err = "" /\ requests = 0 /\ sleeps = <<>>
    /\ data = <<>> /\ ri = 0 /\ all_records = <<>> /\ out_fieldnames = <<>>
    /\ files = <<>> /\ exit_status = "running"

---------------------------------------------------------------------------
(* SpecClean: clean_num applied to one cell *)

MaxCellLen == 3

CellAlphabet == {"4", "0", ".", "-", " ", "*"}

ShortStrings == UNION {[1..n -> CellAlphabet] : n \in 0..MaxCellLen}

S_42_tenth_nano == S_42 \o <<".">> \o Rep("0", 9) \o <<"1">>
S_42_nano == S_42 \o <<".">> \o Rep("0", 8) \o <<"1">>
S_nano == <<"0", ".">> \o Rep("0", 8) \o <<"1">>
S_41_9s == <<"4", "1", ".">> \o Rep("9", 10)

NumericStrings ==
    {S_42, S_42_0, S_42_tenth_nano, S_42_nano, S_nano, S_41_9s, S_3_7,
     <<"-">> \o S_42_tenth_nano, <<"-">> \o S_3_7, <<"+">> \o S_42,
     Neg9("5") \o <<".", "0", "0">>, <<"-">> \o Rep("5", 8)}

OtherStrings ==
    {S_abc, S_inf, <<"-">> \o S_inf, <<"+">> \o S_infinity, S_nan,
     <<"I", "N", "F">>, <<"N", "a", "N">>, <<"I", "n", "f", "i", "n", "i", "t", "y">>,
     <<"i", "n">>, <<"4", "2", "a">>, <<"(", "X">>, Rep("*", 3), Rep("*", 4)}

\* s with whitespace around it, as strip() removes
Padded(s) == {s, <<" ">> \o s, s \o <<"\n">>, <<"\t", " ">> \o s \o <<" ">>}

CleanInputs ==
    {None_} \cup
    {Str(s) : s \in ShortStrings \cup
                    UNION {Padded(t) : t \in SUPPRESS_CODES \cup ANNOTATION_TOKENS
                                               \cup NumericStrings \cup OtherStrings}}

InitClean ==
    /\ pc = "clean_num"
    /\ args \in CleanInputs
    /\ result = NoResult
    /\ fp_round \in {-1, 0, 1}
    /\ DriverAtRest

CallCleanNum ==
    /\ pc = "clean_num"
    /\ result' = clean_num(args)
    /\ pc' = "clean_num_done"
    /\ UNCHANGED <<args, fp_round, driver_vars>>

NextClean == CallCleanNum

SpecClean == InitClean /\ [][NextClean]_vars

---------------------------------------------------------------------------
(* Claims about clean_num, checked under SpecClean *)

Returned == pc = "clean_num_done"

C3_Sentinels ==
    {<<"-", "5", "5", "5", "5", "5", "5", "5", "5", "5">>,
     <<"-", "5", "5", "5", "5", "5", "5", "5", "5", "5", ".", "0">>,
     <<"-", "8", "8", "8", "8", "8", "8", "8", "8", "8">>,
     <<"-", "8", "8", "8", "8", "8", "8", "8", "8", "8", ".", "0">>,
     <<"-", "6", "6", "6", "6", "6", "6", "6", "6", "6">>,
     <<"-", "6", "6", "6", "6", "6", "6", "6", "6", "6", ".", "0">>,
     <<"-", "2", "2", "2", "2", "2", "2", "2", "2", "2">>,
     <<"-", "2", "2", "2", "2", "2", "2", "2", "2", "2", ".", "0">>}

C3_Annotations ==
    {<<>>, <<"(", "X", ")">>, <<"*", "*", "*", "*", "*">>, <<"-">>, <<"*", "*">>}

\* C3: clean_num returns null for a null input and for every input whose
\* trimmed string is a suppression sentinel or an annotation token.
C3_SentinelsGiveNull ==
    (Returned /\ (args.none \/ strip(args.s) \in C3_Sentinels \cup C3_Annotations))
        => result = Null

\* a sentinel with whitespace around it has been normalised to null
C3_Witness ==
    /\ Returned
    /\ args = Str(<<"\t", " ", "-", "8", "8", "8", "8", "8", "8", "8", "8", "8",
                    ".", "0", " ">>)
    /\ result = Null

\* C4: clean_num is total: it returns null or a finite number and never
\* raises, and an input that float() rejects, or parses to a non-finite
\* value, gives null.
C4_Total ==
    Returned =>
        /\ result.t \in {"null", "int", "float"}
        /\ (~args.none /\ float(args.s).t \in {"ValueError", "inf", "nan"})
               => result = Null

\* a literal that parses to a non-finite float has come back as null
C4_Witness ==
    /\ Returned
    /\ args = Str(<<"-">> \o S_inf)
    /\ result = Null

\* the first nine decimals of v are zero: v is less than 1e-9 from trunc(v)
C5_NearInteger(v) == \A i \in 1..9 : i <= Len(v.frac) => v.frac[i] = "0"

\* v is exactly 1e-9 from trunc(v) as a decimal: the comparison of the
\* doubles goes either way
C5_OnThreshold(v) == v.frac = <<"0", "0", "0", "0", "0", "0", "0", "0", "1">>

C5_Trunc(v) == IntV(v.neg /\ v.ip # 0, v.ip)

\* C5: an input that is no sentinel or annotation token and parses to a
\* (finite) number v gives the integer trunc(v) when |v - trunc(v)| < 1e-9
\* and v itself otherwise; "42", "42.0", "42.0000000001" give the integer 42
\* and "3.7" gives 3.7.
C5_IntegerCollapse ==
    Returned =>
        /\ (/\ ~args.none
            /\ strip(args.s) \notin C3_Sentinels \cup C3_Annotations
            /\ float(args.s).t = "float")
               => LET v == float(args.s) IN
                  IF C5_OnThreshold(v) THEN result \in {C5_Trunc(v), v}
                  ELSE IF C5_NearInteger(v) THEN result = C5_Trunc(v)
                  ELSE result = v /\ result.t = "float" /\ result.frac # <<>>
        /\ args \in {Str(S_42), Str(S_42_0), Str(S_42_tenth_nano)}
               => result = IntV(FALSE, 42)
        /\ args = Str(S_3_7) => result = FloatV(FALSE, 3, <<"7">>)

\* "42.0000000001" has collapsed to the integer 42
C5_Witness ==
    /\ Returned
    /\ args = Str(S_42_tenth_nano)
    /\ result = IntV(FALSE, 42)

---------------------------------------------------------------------------
(* SpecHdr: parse_headers_for_table applied to one header row *)

MaxHeaders == 3

OtherTable(table) == IF table = S0101 THEN S1701 ELSE S0101

HdrPool(table) ==
    {Str(Hdr(table, G01, L001, KE)), Str(Hdr(table, G01, L001, KM)),
     Str(Hdr(table, G02, L001, KE)), Str(Hdr(table, G01, L002, KE)),
     Str(H_UNRELATED), None_,
     Str(Hdr(table, G01, L001, KE) \o <<"\n">>),
     Str(Hdr(OtherTable(table), G01, L001, KE)),
     Str(Hdr(table, <<"1">>, L001, KE)),
     Str(Hdr(table, G01, L001, <<"X">>))}

InitHdr ==
    /\ pc = "parse_headers_for_table"
    /\ \E table \in {S0101, S1701} : \E n \in 0..MaxHeaders :
       \E hs \in [1..n -> HdrPool(table)] :
           args = [table |-> table, headers |-> hs]
    /\ result = NoResult
    /\ fp_round = 0
    /\ DriverAtRest

CallParseHeaders ==
    /\ pc = "parse_headers_for_table"
    /\ result' = parse_headers_for_table(args.table, args.headers)
    /\ pc' = "parse_headers_for_table_done"
    /\ UNCHANGED <<args, fp_round, driver_vars>>

NextHdr == CallParseHeaders

SpecHdr == InitHdr /\ [][NextHdr]_vars

---------------------------------------------------------------------------
(* Claims about parse_headers_for_table, checked under SpecHdr *)

\* the (group, line, kind) that h would spell at the table's offsets
C2_Decode(table, h) ==
    LET n == Len(table) IN
    <<SubSeq(h, n + 3, n + 4), SubSeq(h, n + 6, n + 8), SubSeq(h, n + 9, n + 9)>>

\* h is <table>_C<2 digits>_<3 digits><E|M>, and nothing more
C2_OfForm(table, h) ==
    LET c == C2_Decode(table, h) IN
    /\ Len(h) = Len(table) + 9
    /\ h = table \o <<"_", "C">> \o c[1] \o <<"_">> \o c[2] \o c[3]
    /\ \A i \in 1..2 : c[1][i] \in DigitChars
    /\ \A i \in 1..3 : c[2][i] \in DigitChars
    /\ c[3] \in {KE, KM}

\* the 0-based positions of the headers of the form that decode to c
C2_Positions(table, headers, c) ==
    {i - 1 : i \in {j \in 1..Len(headers) :
                       /\ ~headers[j].none
                       /\ C2_OfForm(table, headers[j].s)
                       /\ C2_Decode(table, headers[j].s) = c}}

C2_Max(S) == CHOOSE m \in S : \A x \in S : x <= m

\* C2: the map's keys are exactly the triples decoded from the headers of
\* the form <table>_C<2 digits>_<3 digits><E|M>, each mapped to the greatest
\* position of such a header; other headers contribute nothing; and
\* ["S0101_C01_001E", "S0101_C01_001M", "UNRELATED"] with table "S0101"
\* gives exactly {(01,001,E) -> 0, (01,001,M) -> 1}.
C2_FieldIndexExact ==
    pc = "parse_headers_for_table_done" =>
        LET table == args.table
            headers == args.headers
            keys == {C2_Decode(table, headers[j].s) :
                        j \in {i \in 1..Len(headers) :
                                  ~headers[i].none /\ C2_OfForm(table, headers[i].s)}}
        IN  /\ DOMAIN result = keys
            /\ \A c \in keys : result[c] = C2_Max(C2_Positions(table, headers, c))
            /\ (/\ table = S0101
                /\ headers = <<Str(Hdr(S0101, G01, L001, KE)),
                               Str(Hdr(S0101, G01, L001, KM)), Str(H_UNRELATED)>>)
                   => result = (<<G01, L001, KE>> :> 0) @@ (<<G01, L001, KM>> :> 1)

---------------------------------------------------------------------------
(* SpecRow: build_records_for_row applied to one header row and data row *)

MaxCols == 2

RowTables == DOMAIN TABLE_SCHEMAS \cup {S0101, S1501}

\* the coordinates a header row of the table may carry at line 001
RowCoords(table) ==
    IF table = S0101 THEN {G01, G02, G03, G04, G05, G06, G07} \X {KE, KM}
    ELSE IF table = S1501 THEN {<<G01, KE>>}
    ELSE {G01, G03, G05, G07} \X {KE}

RowHdrPool(table, c) ==
    {Str(S_GEO_ID), Str(S_NAME),
     Str(Hdr(table, c[1], L001, c[2])), Str(Hdr(table, G01, L002, KE))}

RowCells == {Str(S_5), Str(S_3_7), Str(S_X), None_}

\* a header row of up to MaxCols columns with a data row of the same length
\* or one cell short
InitRow ==
    /\ pc = "build_records_for_row"
    /\ \E table \in RowTables : \E c \in RowCoords(table) : \E n \in 0..MaxCols :
       \E hs \in [1..n -> RowHdrPool(table, c)] :
       \E m \in {k \in {n - 1, n} : k >= 0} : \E r \in [1..m -> RowCells] :
           args = [table |-> table, headers |-> hs, row |-> r]
    /\ result = NoResult
    /\ fp_round = 0
    /\ DriverAtRest

CallBuildRecords ==
    /\ pc = "build_records_for_row"
    /\ result' = build_records_for_row(args.table, args.headers, args.row)
    /\ pc' = "build_records_for_row_done"
    /\ UNCHANGED <<args, fp_round, driver_vars>>

\* the fieldnames main falls back to when the response has no data row
CallFallback ==
    /\ pc = "build_records_for_row"
    /\ result' = [exc |-> "", records |-> <<>>,
                  fieldnames |-> FallbackFieldnames(args.table)]
    /\ pc' = "fallback_done"
    /\ UNCHANGED <<args, fp_round, driver_vars>>

NextRow == CallBuildRecords \/ CallFallback

SpecRow == InitRow /\ [][NextRow]_vars

---------------------------------------------------------------------------
(* Claims about build_records_for_row, checked under SpecRow *)

Assembled ==
    /\ pc = "build_records_for_row_done"
    /\ Len(args.row) = Len(args.headers)

\* the groups each schema reads
RowSchemaGroups(table) ==
    CASE table = S1701 -> {G01, G02, G03}
      [] table = S1901 -> {G01, G02, G03, G04}
      [] table = S2301 -> {G01, G02, G03, G04}
      [] table = S2502 -> {G01, G02, G03, G04, G05, G06}
      [] table = S2701 -> {G01, G02, G03, G04, G05}
      [] table = S2801 -> {G01, G02}
      [] OTHER -> {G01, G02, G03, G04, G05, G06}

\* the value decoded for a coordinate of the row: null when no header
\* carries it
RowValue(g, l, k) ==
    LET fi == parse_headers_for_table(args.table, args.headers) IN
    IF <<g, l, k>> \in DOMAIN fi THEN clean_num(args.row[fi[<<g, l, k>>] + 1])
    ELSE Null

RowLines == {c[2] : c \in DOMAIN parse_headers_for_table(args.table, args.headers)}

RowHasValue(l) ==
    \E g \in RowSchemaGroups(args.table), k \in {KE, KM} : RowValue(g, l, k) # Null

\* C1: a record is retained for a discovered line number if and only if one
\* of its fields other than GEO_ID, NAME, line_no, label is non-null, for
\* every table and every row as long as the header row.
C1_KeepIffValue ==
    Assembled =>
        /\ result.exc = ""
        /\ \A i \in 1..Len(result.records) :
               \E f \in DOMAIN result.records[i] \ {"GEO_ID", "NAME", "line_no", "label"} :
                   result.records[i][f] # Null
        /\ \A l \in RowLines :
               Cardinality({i \in 1..Len(result.records) :
                               result.records[i].line_no = l})
                   = IF RowHasValue(l) THEN 1 ELSE 0

\* of two discovered lines one has been kept and the all-null one dropped
C1_Witness ==
    /\ Assembled
    /\ args.table = S1701
    /\ Cardinality(RowLines) = 2
    /\ Len(result.records) = 1
    /\ result.records[1].line_no = L002

C6_DefaultFieldnames ==
    <<"GEO_ID", "NAME", "line_no", "label", "total", "total_moe", "total_pct",
      "total_pct_moe", "male", "male_moe", "male_pct", "male_pct_moe",
      "female", "female_moe", "female_pct", "female_pct_moe">>

C6_Registered == {S1701, S1901, S2301, S2502, S2701, S2801}

\* C6: an unregistered table resolves to DEFAULT_FIELDNAMES in order and
\* default_builder, a registered one to its entry's fieldnames and builder,
\* in build_records_for_row and in the driver's no-rows fallback.
C6_SchemaResolution ==
    (Assembled \/ pc = "fallback_done") =>
        /\ result.exc = ""
        /\ result.fieldnames =
               IF args.table \in C6_Registered
               THEN TABLE_SCHEMAS[args.table].fieldnames
               ELSE C6_DefaultFieldnames
        /\ \A i \in 1..Len(result.records) :
               DOMAIN result.records[i] \cup {"label"} = Range(result.fieldnames)

\* an unregistered table has produced a record under the default fieldnames
C6_Witness ==
    /\ Assembled
    /\ args.table = S1501
    /\ Len(result.records) = 1
    /\ result.fieldnames = C6_DefaultFieldnames

\* the coordinate of each numeric field of the default schema
C7_Coord ==
    [total |-> <<G01, KE>>, total_moe |-> <<G01, KM>>,
     total_pct |-> <<G02, KE>>, total_pct_moe |-> <<G02, KM>>,
     male |-> <<G03, KE>>, male_moe |-> <<G03, KM>>,
     male_pct |-> <<G04, KE>>, male_pct_moe |-> <<G04, KM>>,
     female |-> <<G05, KE>>, female_moe |-> <<G05, KM>>,
     female_pct |-> <<G06, KE>>, female_pct_moe |-> <<G06, KM>>]

\* of all the coordinates the headers carry, only 01/E at line 001 decodes
\* to a value
C7_OnlyTotal001 ==
    LET fi == parse_headers_for_table(args.table, args.headers) IN
    /\ <<G01, L001, KE>> \in DOMAIN fi
    /\ \A c \in DOMAIN fi :
           (clean_num(args.row[fi[c] + 1]) # Null) <=> (c = <<G01, L001, KE>>)

\* C7: under the default schema each numeric field of the record for line L
\* is clean_num of the cell at the position the FieldIndex gives for the
\* field's (group, L, kind), null when the coordinate is absent; a row in
\* which only 01/E at line 001 is non-null gives exactly one record, for
\* line 001, with total set and every other numeric field null.
C7_DefaultMapping ==
    (Assembled /\ args.table \notin C6_Registered) =>
        /\ \A i \in 1..Len(result.records) :
               LET rec == result.records[i] IN
               \A f \in DOMAIN C7_Coord :
                   rec[f] = RowValue(C7_Coord[f][1], rec.line_no, C7_Coord[f][2])
        /\ C7_OnlyTotal001 =>
               /\ Len(result.records) = 1
               /\ result.records[1].line_no = L001
               /\ result.records[1].total # Null
               /\ \A f \in DOMAIN C7_Coord \ {"total"} : result.records[1][f] = Null

\* a row with a value only at 01/E of line 001, and an empty line 002, has
\* given the one record
C7_Witness ==
    /\ Assembled
    /\ args.table = S0101
    /\ args.headers = <<Str(Hdr(S0101, G01, L001, KE)), Str(Hdr(S0101, G01, L002, KE))>>
    /\ args.row = <<Str(S_3_7), Str(S_X)>>
    /\ Len(result.records) = 1
    /\ result.records[1].total = FloatV(FALSE, 3, <<"7">>)

---------------------------------------------------------------------------
(* Spec: main over several (table, tract) units *)

T1 == <<"4", "8", "0", "2", "1", "9", "5", "0", "8", "0", "1">>
T2 == <<"4", "8", "0", "2", "1", "9", "5", "0", "8", "0", "2">>

TableLists == {<<S0101>>, <<S1701, S0101>>}
TractLists == {<<T1>>, <<T2, T1>>}

\* header rows of a response
HeadersFull(table) ==
    <<Str(S_GEO_ID), Str(S_NAME), Str(Hdr(table, G01, L010, KE)),
      Str(Hdr(table, G01, L002, KE))>>
HeadersNoIds(table) == <<Str(Hdr(table, G05, L001, KE)), Str(H_UNRELATED)>>
HeadersForeign(table) ==
    <<Str(S_GEO_ID), Str(S_NAME), Str(Hdr(OtherTable(table), G01, L001, KE))>>

\* the responses the API may hold for a table: no data row, two rows out of
\* GEO_ID order, no identifier columns, no header of the table
Responses(table) ==
    {<<HeadersFull(table)>>,
     <<HeadersFull(table), <<Str(S_B), Str(S_N), Str(S_5), Str(S_3_7)>>,
                           <<Str(S_A), Str(S_N), Str(S_X), Str(S_42_0)>>>>,
     <<HeadersNoIds(table), <<Str(S_5), Str(S_X)>>>>,
     <<HeadersForeign(table), <<Str(S_A), Str(S_N), Str(S_5)>>>>}

LabelRow(ln, label) == [line_no |-> Str(ln), label |-> Str(label)]

NoLabelFile == [exists |-> FALSE, rows |-> <<>>]
LabelFile(rows) == [exists |-> TRUE, rows |-> rows]

\* labels/<table>.csv: absent, or rows with padded and unpadded line numbers
LabelFiles ==
    {NoLabelFile,
     LabelFile(<<LabelRow(<<"2">>, <<"t", "a", "b">>),
                 LabelRow(<<" ", "1", "0">>, <<"c", "a", "t", " ">>),
                 LabelRow(<<>>, <<"n", "i", "t">>)>>)}

Units(tbls, trs) == Range(tbls) \X Range(trs)

InitMain(tableLists, tractLists, labelFiles) ==
    /\ pc = "table_loop"
    /\ tables \in tableLists
    /\ tracts \in tractLists
    /\ label_files \in [Range(tables) -> labelFiles]
    /\ ti = 0 /\ tri = 0 /\ label_map = EmptyDict
    /\ attempt = 0 /\ last_err = "" /\ requests = 0 /\ sleeps = <<>>
    /\ data = <<>> /\ ri = 0 /\ all_records = <<>> /\ out_fieldnames = <<>>
    /\ files = <<>> /\ exit_status = "running"
    /\ args = <<>> /\ result = NoResult /\ fp_round = 0

Init ==
    /\ InitMain(TableLists, TractLists, LabelFiles)
    /\ \E f \in [Units(tables, tracts) -> UNION {Responses(tb) : tb \in Range(tables)}] :
           /\ \A u \in DOMAIN f : f[u] \in Responses(u[1])
           /\ api = f

Spec == Init /\ [][Next]_vars

---------------------------------------------------------------------------
(* SpecUnit: main over one (table, tract) unit, with any data rows *)

MaxRows == 2

UnitRows ==
    {<<g, Str(S_N), c1, c2>> :
        g \in {Str(S_B), Str(S_AB), None_}, c1 \in {Str(S_5), Str(S_X)},
        c2 \in {Str(S_5), Str(S_X)}}

InitUnit ==
    /\ InitMain({<<S0101>>, <<S1701>>}, {<<T1>>}, LabelFiles)
    /\ \E n \in 0..MaxRows : \E rows \in [1..n -> UnitRows] :
           api = (<<tables[1], tracts[1]>> :> (<<HeadersFull(tables[1])>> \o rows))

SpecUnit == InitUnit /\ [][Next]_vars

---------------------------------------------------------------------------
(* Claims about the sort, checked under SpecUnit *)

\* None compares as the empty string
C9_Text(x) == IF x.none THEN <<>> ELSE x.s

\* the (GEO_ID, line_no) of a is less than or equal to that of b, as strings
C9_KeyLeq(a, b) ==
    LET ga == C9_Text(a.GEO_ID)
        gb == C9_Text(b.GEO_ID)
    IN  \/ StrLess(ga, gb)
        \/ ga = gb /\ (a.line_no = b.line_no \/ StrLess(a.line_no, b.line_no))

\* C9: the records passed to write_tidy_csv are in ascending order of
\* (GEO_ID, line_no) compared as strings, a null GEO_ID as the empty string.
C9_WrittenSorted ==
    \A f \in 1..Len(files) :
        \A i \in 1..(Len(files[f].records) - 1) :
            C9_KeyLeq(files[f].records[i], files[f].records[i + 1])

\* rows fetched in the order B, AB have been written AB first, 002 before 010
C9_Witness ==
    /\ Len(files) = 1
    /\ Len(data) = 3
    /\ data[2][1] = Str(S_B) /\ data[3][1] = Str(S_AB)
    /\ Len(files[1].records) = 4
    /\ files[1].records[1].GEO_ID = Str(S_AB) /\ files[1].records[1].line_no = L002
    /\ files[1].records[2].GEO_ID = Str(S_AB) /\ files[1].records[2].line_no = L010
    /\ files[1].records[3].GEO_ID = Str(S_B)

---------------------------------------------------------------------------
(* SpecLabel: the label attachment step of main applied to records *)

MaxRecs == 2

LabelInputLines == {<<"1">>, <<"1", "2">>, L001, <<"0", "0", "1", "0">>, <<>>}

\* records as a builder leaves them, and records without a line_no
LabelInputRecs ==
    {[GEO_ID |-> Str(S_A), NAME |-> None_, line_no |-> ln, total |-> v] :
        ln \in LabelInputLines, v \in {Null, IntV(FALSE, 5)}}
    \cup {[GEO_ID |-> Str(S_A), NAME |-> None_, total |-> IntV(FALSE, 5)]}

LabelInputFiles ==
    LabelFiles \cup
    {LabelFile(<<LabelRow(L001, <<"a">>)>>),
     LabelFile(<<LabelRow(<<"1">>, <<"a">>), LabelRow(L001, <<"b">>),
                 LabelRow(<<"0">>, <<"c">>)>>),
     LabelFile(<<LabelRow(<<"1", "2">>, <<>>), [label |-> Str(<<"a">>)]>>)}

InitLabel ==
    /\ pc = "attach_labels"
    /\ \E n \in 0..MaxRecs : \E recs \in [1..n -> LabelInputRecs] :
       \E file \in LabelInputFiles :
           args = [recs |-> recs, label_map |-> load_label_map_for_table(file)]
    /\ result = NoResult
    /\ fp_round = 0
    /\ DriverAtRest

CallAttachLabels ==
    /\ pc = "attach_labels"
    /\ result' = AttachLabels(args.recs, args.label_map)
    /\ pc' = "attach_labels_done"
    /\ UNCHANGED <<args, fp_round, driver_vars>>

NextLabel == CallAttachLabels

SpecLabel == InitLabel /\ [][NextLabel]_vars

---------------------------------------------------------------------------
(* Claims about the fetch, checked under Spec *)

\* the units main has left behind it
C10_UnitsDone == ti * Len(tracts) + tri

\* C10: at most `retries` request attempts are made for a unit, every kind
\* of failure counting alike; a successful attempt ends the fetch; and when
\* every attempt has failed the run aborts: no file is written for the unit
\* and nothing is fetched or written after it.
C10_RetryThenAbort ==
    /\ [](/\ requests <= retries
          /\ (pc = "sleep" => last_err \in FailureKinds)
          /\ (exit_status = "RuntimeError" =>
                  /\ requests = retries
                  /\ Len(files) = C10_UnitsDone
                  /\ \A f \in 1..Len(files) :
                         files[f].path # OutPath(CurTract, CurTable)))
    /\ [][/\ (pc = "fetch" /\ requests = retries) => exit_status' = "RuntimeError"
          /\ (pc = "fetch" /\ pc' = "rows") => (requests' <= retries /\ data' # <<>>)
          /\ pc = "rows" => requests' = requests
          /\ exit_status # "RuntimeError"]_vars

\* the second unit has failed three times after the first was written
C10_Witness ==
    /\ exit_status = "RuntimeError"
    /\ requests = 3
    /\ Len(files) = 1
    /\ Len(tracts) = 2

---------------------------------------------------------------------------
(* Claims about the label attachment, checked under SpecLabel *)

\* s left-padded with zeros to three characters
C8_Pad3(s) ==
    CASE Len(s) = 0 -> <<"0", "0", "0">>
      [] Len(s) = 1 -> <<"0", "0">> \o s
      [] Len(s) = 2 -> <<"0">> \o s
      [] OTHER -> s

C8_LineOf(rec) == IF "line_no" \in DOMAIN rec THEN rec.line_no ELSE <<>>

\* C8: the step sets each record's label to label_map[line_no padded to
\* three characters], or to the empty string when the key is absent, and
\* leaves every other field of every record as it was; a record with
\* line_no "1" gets the label keyed "001".
C8_LabelOnly ==
    pc = "attach_labels_done" =>
        /\ Len(result) = Len(args.recs)
        /\ \A i \in 1..Len(result) :
               LET before == args.recs[i]
                   after == result[i]
                   key == C8_Pad3(C8_LineOf(before))
               IN  /\ DOMAIN after = DOMAIN before \cup {"label"}
                   /\ \A f \in DOMAIN before \ {"label"} : after[f] = before[f]
                   /\ after.label = IF key \in DOMAIN args.label_map
                                    THEN args.label_map[key] ELSE <<>>
                   /\ (C8_LineOf(before) = <<"1">> /\ L001 \in DOMAIN args.label_map)
                          => after.label = args.label_map[L001]

\* a record with line_no "1" has received the label keyed "001"
C8_Witness ==
    /\ pc = "attach_labels_done"
    /\ Len(result) = 2
    /\ C8_LineOf(args.recs[1]) = <<"1">>
    /\ L001 \in DOMAIN args.label_map
    /\ result[1].label = <<"b">>
    /\ result[2].label = <<>>

---------------------------------------------------------------------------
(* Claims about the order of the units, checked under Spec *)

\* the k-th unit (k from 1) of the cross product in table-major order
C11_TableOf(k) == tables[((k - 1) \div Len(tracts)) + 1]
C11_TractOf(k) == tracts[((k - 1) % Len(tracts)) + 1]

C11_InUnit == pc \in {"fetch", "sleep", "rows"}

\* C11: units are processed one at a time in table-major order over the
\* cross product of the table list and the tract list: a unit's fetch begins
\* only when the files of all units before it have been written, a file is
\* written only from the data its own unit's fetch returned, and a run that
\* ends without failure has fetched and written every unit exactly once.
C11_Sequential ==
    /\ [](/\ \A k \in 1..Len(files) :
                 files[k].path = OutPath(C11_TractOf(k), C11_TableOf(k))
          /\ C11_InUnit =>
                 /\ ti < Len(tables) /\ tri < Len(tracts)
                 /\ Len(files) = ti * Len(tracts) + tri
                 /\ CurTable = C11_TableOf(Len(files) + 1)
                 /\ CurTract = C11_TractOf(Len(files) + 1)
          /\ exit_status = "0" => Len(files) = Len(tables) * Len(tracts))
    /\ [][/\ (pc # "rows" /\ pc' = "rows") =>
                 /\ pc = "fetch"
                 /\ requests' = requests + 1
                 /\ data' = api[<<CurTable, CurTract>>]
                 /\ files' = files
          /\ files' # files =>
                 /\ pc = "rows"
                 /\ data = api[<<CurTable, CurTract>>]
                 /\ Len(files') = Len(files) + 1
                 /\ SubSeq(files', 1, Len(files)) = files
                 /\ files'[Len(files')].path = OutPath(CurTract, CurTable)
                 /\ ~C11_InUnit'
          /\ (C11_InUnit /\ ~C11_InUnit') =>
                 (Len(files') = Len(files) + 1 \/ exit_status' # "running")]_vars

\* two tables for two tracts have been fetched and written, in table-major
\* order
C11_Witness ==
    /\ exit_status = "0"
    /\ Len(tables) = 2 /\ Len(tracts) = 2
    /\ Len(files) = 4
    /\ files[2].path = OutPath(tracts[2], tables[1])
    /\ files[3].path = OutPath(tracts[1], tables[2])

---------------------------------------------------------------------------
(* Claims about the written CSV, checked under Spec *)

\* the fieldname list of the schema a table resolves to
C12_Fieldnames(table) ==
    IF table \in DOMAIN TABLE_SCHEMAS THEN TABLE_SCHEMAS[table].fieldnames
    ELSE DEFAULT_FIELDNAMES

\* the field is missing from the record or holds null
C12_NullOrMissing(rec, k) ==
    \/ k \notin DOMAIN rec
    \/ k \in {"GEO_ID", "NAME"} /\ rec[k].none
    \/ k \notin {"GEO_ID", "NAME", "line_no", "label"} /\ rec[k].t = "null"

\* C12: every file written has as its header row the fieldname list of the
\* schema its table resolves to, in the declared order, also when there is
\* no data row or no header of the table (zero records); each record is one
\* row of exactly those columns in that order, a null or missing field being
\* an empty cell.
C12_HeaderAndColumns ==
    \A k \in 1..Len(files) :
        LET f == files[k]
            names == C12_Fieldnames(C11_TableOf(k))
        IN  /\ f.header = names
            /\ Len(f.rows) = Len(f.records)
            /\ \A i \in 1..Len(f.rows) :
                   /\ Len(f.rows[i]) = Len(names)
                   /\ \A j \in 1..Len(names) :
                          IF C12_NullOrMissing(f.records[i], names[j])
                          THEN f.rows[i][j] = <<>>
                          ELSE CASE names[j] \in {"line_no", "label"} ->
                                        f.rows[i][j] = f.records[i][names[j]]
                                 [] names[j] \in {"GEO_ID", "NAME"} ->
                                        f.rows[i][j] = f.records[i][names[j]].s
                                 [] OTHER -> f.rows[i][j] # <<>>

\* a file with no record and a file with a record holding null fields have
\* been written, for a registered and for an unregistered table
C12_Witness ==
    /\ Len(files) = 4
    /\ tables = <<S1701, S0101>>
    /\ files[1].rows = <<>> /\ files[1].header = TABLE_SCHEMAS[S1701].fieldnames
    /\ api[<<S1701, tracts[1]>>] = <<HeadersForeign(S1701), <<Str(S_A), Str(S_N), Str(S_5)>>>>
    /\ api[<<S1701, tracts[2]>>] = <<HeadersFull(S1701)>>
    /\ Len(files[3].rows) = 3
    /\ files[3].header = DEFAULT_FIELDNAMES
    /\ \E j \in 1..Len(DEFAULT_FIELDNAMES) : files[3].rows[1][j] = <<>>
    /\ \E j \in 1..Len(DEFAULT_FIELDNAMES) : files[3].rows[1][j] = <<"4", "2">>

---------------------------------------------------------------------------
(* SpecTwice: main run to its end and then once more on the same inputs; *)
(* files holds what the two runs wrote, one after the other              *)

\* the number of (table, tract) units of a run
NumUnits == Len(tables) * Len(tracts)

\* the script is started again after a run that ended with status 0; the
\* command line, the API and the label files are those of the first run
Rerun ==
    /\ pc = "exited" /\ exit_status = "0" /\ Len(files) = NumUnits
    /\ pc' = "table_loop"
    /\ exit_status' = "running"
    /\ ti' = 0 /\ tri' = 0 /\ label_map' = EmptyDict
    /\ attempt' = 0 /\ last_err' = "" /\ requests' = 0 /\ sleeps' = <<>>
    /\ data' = <<>> /\ ri' = 0 /\ all_records' = <<>> /\ out_fieldnames' = <<>>
    /\ UNCHANGED <<call_vars, api, tables, tracts, label_files, files>>

InitTwice ==
    /\ InitMain(TableLists, {<<T1>>}, LabelFiles)
    /\ \E f \in [Units(tables, tracts) -> UNION {Responses(tb) : tb \in Range(tables)}] :
           /\ \A u \in DOMAIN f : f[u] \in Responses(u[1])
           /\ api = f

NextTwice == Next \/ Rerun

SpecTwice == InitTwice /\ [][NextTwice]_vars

---------------------------------------------------------------------------
(* Claims about determinism, checked under SpecTwice *)

---------------------------------------------------------------------------
(* Claims about the row identifiers, checked under SpecRow *)

C14_Has(colname) == \E i \in 1..Len(args.headers) : args.headers[i] = Str(colname)

\* the position of the first header of that name
C14_First(colname) ==
    CHOOSE i \in 1..Len(args.headers) :
        /\ args.headers[i] = Str(colname)
        /\ \A j \in 1..(i - 1) : args.headers[j] # Str(colname)

\* the attribute row_ids is to give for a header name
C14_Expected(colname) ==
    IF C14_Has(colname) THEN args.row[C14_First(colname)] ELSE None_

\* C14: without a GEO_ID (NAME) header row_ids gives null for the attribute
\* and does not raise, with the header it gives the row cell at the header's
\* position; every record assembled from the row carries these two values.
C14_RowIds ==
    pc \in {"build_records_for_row", "build_records_for_row_done"} =>
        LET ids == row_ids(args.headers, args.row) IN
        /\ ~C14_Has(S_GEO_ID) => ids[1] = None_
        /\ ~C14_Has(S_NAME) => ids[2] = None_
        /\ Len(args.row) = Len(args.headers) =>
               /\ ids = <<C14_Expected(S_GEO_ID), C14_Expected(S_NAME)>>
               /\ pc = "build_records_for_row_done" =>
                      /\ result.exc = ""
                      /\ \A i \in 1..Len(result.records) :
                             /\ result.records[i].GEO_ID = C14_Expected(S_GEO_ID)
                             /\ result.records[i].NAME = C14_Expected(S_NAME)

\* a record has been assembled from a row with a NAME and no GEO_ID header
C14_Witness ==
    /\ pc = "build_records_for_row_done"
    /\ args.headers = <<Str(S_NAME), Str(Hdr(S0101, G01, L001, KE))>>
    /\ args.row = <<Str(S_3_7), Str(S_5)>>
    /\ Len(result.records) = 1
    /\ result.records[1].GEO_ID = None_
    /\ result.records[1].NAME = Str(S_3_7)

---------------------------------------------------------------------------
(* SpecAssemble: one iteration of main's row loop, from the state main is *)
(* in after the fetch of a response with one data row                     *)

InitAssemble ==
    /\ pc = "rows"
    /\ \E table \in RowTables : \E c \in RowCoords(table) : \E n \in 1..MaxCols :
       \E hs \in [1..n -> RowHdrPool(table, c)] : \E r \in [1..n -> RowCells] :
       \E file \in LabelFiles :
           /\ tables = <<table>>
           /\ tracts = <<T1>>
           /\ label_files = (table :> file)
           /\ label_map = load_label_map_for_table(file)
           /\ api = (<<table, T1>> :> <<hs, r>>)
           /\ data = <<hs, r>>
    /\ ti = 0 /\ tri = 0
    /\ attempt = 0 /\ last_err = "" /\ requests = 1 /\ sleeps = <<>>
    /\ ri = 0 /\ all_records = <<>> /\ out_fieldnames = <<>>
    /\ files = <<>> /\ exit_status = "running"
    /\ args = <<>> /\ result = NoResult /\ fp_round = 0

NextAssemble == AssembleRow

SpecAssemble == InitAssemble /\ [][NextAssemble]_vars

---------------------------------------------------------------------------
(* Claims about the field set of a record, checked under SpecAssemble *)

\* C15: once the labels are attached every record has exactly the fields of
\* the active schema's fieldname list, GEO_ID, NAME, line_no and label among
\* them, for the default schema and for each registered schema: the keys the
\* builder produces together with label are the declared fieldnames.
C15_FieldSet ==
    (pc = "rows" /\ ri = 1) =>
        /\ out_fieldnames = C12_Fieldnames(CurTable)
        /\ \A i \in 1..Len(all_records) :
               /\ DOMAIN all_records[i] = Range(out_fieldnames)
               /\ {"GEO_ID", "NAME", "line_no", "label"} \subseteq DOMAIN all_records[i]
               /\ Cardinality(DOMAIN all_records[i]) = Len(out_fieldnames)

\* a labelled record of a registered table and its label
C15_Witness ==
    /\ pc = "rows" /\ ri = 1
    /\ CurTable = S2801
    /\ Len(all_records) = 1
    /\ all_records[1].line_no = L002
    /\ all_records[1].label = <<"t", "a", "b">>
    /\ all_records[1].total # Null

---------------------------------------------------------------------------
(* Claims about the order of a row's records, checked under SpecRow *)

---------------------------------------------------------------------------
(* Claims about the backoff delays, checked under Spec *)

\* C17: the delay after the k-th failed attempt is backoff * k, and a delay
\* is taken only when another attempt follows it, so that a fetch whose
\* every attempt failed has taken retries - 1 delays when it raises.
C17_DelaysBetweenAttempts ==
    /\ \A k \in 1..Len(sleeps) : sleeps[k] = k
    /\ Len(sleeps) <= retries - 1
    /\ exit_status = "RuntimeError" => Len(sleeps) = retries - 1

---------------------------------------------------------------------------
(* SpecInterrupt: main with a KeyboardInterrupt arriving at any moment *)

\* mutant: the retry loop catches the interruption as it catches a failed
\* request
Interrupt_caught ==
    /\ Running
    /\ IF pc = "fetch" /\ attempt < retries
       THEN /\ last_err' = "KeyboardInterrupt"
            /\ pc' = "sleep"
            /\ UNCHANGED exit_status
       ELSE /\ pc' = "exited"
            /\ exit_status' = "130"
            /\ UNCHANGED last_err
    /\ UNCHANGED <<call_vars, api, tables, tracts, label_files, ti, tri,
                   label_map, attempt, requests, sleeps, data, ri,
                   all_records, out_fieldnames, files>>

\* KeyboardInterrupt raised inside main, in session.get, in time.sleep or
\* anywhere else: except Exception does not catch it, __main__ does and
\* calls sys.exit(130)
Interrupt ==
    /\ Running
    /\ pc' = "exited"
    /\ exit_status' = "130"
    /\ UNCHANGED <<call_vars, api, tables, tracts, label_files, ti, tri,
                   label_map, attempt, last_err, requests, sleeps, data, ri,
                   all_records, out_fieldnames, files>>

NextInterrupt == Next \/ Interrupt

SpecInterrupt == InitTwice /\ [][NextInterrupt]_vars

---------------------------------------------------------------------------
(* Claims about interruption, checked under SpecInterrupt *)

\* C18: an interruption during a fetch attempt, a backoff delay or record
\* assembly is not taken as a failed attempt: the process exits with status
\* 130 from wherever it was, with no request, unit or file write started
\* after it and the files written before left as they were.
C18_InterruptExits ==
    /\ [](/\ last_err \in FailureKinds \cup {""}
          /\ exit_status = "130" => pc = "exited")
    /\ [][/\ exit_status # "130"
          /\ exit_status' = "130" =>
                 /\ files' = files
                 /\ requests' = requests /\ sleeps' = sleeps
                 /\ ti' = ti /\ tri' = tri]_vars

\* interrupted during the retries of the second unit, the first unit's file
\* written
C18_Witness ==
    /\ exit_status = "130"
    /\ Len(files) = 1
    /\ requests = 2
    /\ attempt = 1
    /\ files[1].path = OutPath(tracts[1], tables[1])

---------------------------------------------------------------------------
(* old_files/fetch_tables.py: row_to_records, the assembler before the    *)
(* schemas. Its clean_num and parse_headers_for_table are those above.    *)

\* getv of row_to_records
legacy_getv(fieldmap, row, line_nos) ==
    [group \in [1..2 -> DigitChars], kind \in {KE, KM}, ln \in Range(line_nos) |->
        IF <<group, ln, kind>> \in DOMAIN fieldmap
        THEN LET cell == RowAt(row, fieldmap[<<group, ln, kind>>])
             IN  IF CellRaised(cell) THEN cell ELSE clean_num(cell)
        ELSE Null]

\* the first dict bound to rec, which the second assignment replaces
legacy_rec_first(geo_id, name, ln, getv) ==
    [GEO_ID |-> geo_id, NAME |-> name, line_no |-> ln,
     total |-> getv[G01, KE, ln], male |-> getv[G03, KE, ln],
     female |-> getv[G05, KE, ln], total_pct |-> getv[G02, KE, ln],
     male_pct |-> getv[G04, KE, ln], female_pct |-> getv[G06, KE, ln],
     total_moe |-> getv[G01, KM, ln], male_moe |-> getv[G03, KM, ln],
     female_moe |-> getv[G05, KM, ln]]

\* the dict rec holds when it is tested and appended
legacy_rec(geo_id, name, ln, getv) ==
    [GEO_ID |-> geo_id, NAME |-> name, line_no |-> ln,
     total |-> getv[G01, KE, ln], below_pl |-> getv[G02, KE, ln],
     below_pl_pct |-> getv[G03, KE, ln], total_moe |-> getv[G01, KM, ln],
     below_pl_moe |-> getv[G02, KM, ln], below_pl_pct_moe |-> getv[G03, KM, ln]]

legacy_keys == <<"total", "male", "female", "total_pct", "male_pct", "female_pct">>

\* any(rec[k] is not None for k in keys) from the i-th key on: "True",
\* "False", or "KeyError" when rec[k] is evaluated for a key rec lacks
RECURSIVE legacy_any(_, _, _)
legacy_any(rec, keys, i) ==
    IF i > Len(keys) THEN "False"
    ELSE IF keys[i] \notin DOMAIN rec THEN "KeyError"
    ELSE IF rec[keys[i]] # Null THEN "True"
    ELSE legacy_any(rec, keys, i + 1)

\* the loop over line_nos from the i-th line on, out being the list so far
RECURSIVE legacy_loop(_, _, _, _, _, _)
legacy_loop(geo_id, name, line_nos, getv, i, out) ==
    IF i > Len(line_nos) THEN [exc |-> "", records |-> out]
    ELSE LET first == legacy_rec_first(geo_id, name, line_nos[i], getv)
             rec == legacy_rec(geo_id, name, line_nos[i], getv)
             test == legacy_any(rec, legacy_keys, 1)
         IN  IF RecordRaised(first) \/ RecordRaised(rec)
             THEN [exc |-> "IndexError", records |-> <<>>]
             ELSE IF test = "KeyError" THEN [exc |-> "KeyError", records |-> <<>>]
             ELSE legacy_loop(geo_id, name, line_nos, getv, i + 1,
                              IF test = "True" THEN Append(out, rec) ELSE out)

row_to_records(table, headers, row) ==
    LET ids == row_ids(headers, row)
        fieldmap == parse_headers_for_table(table, headers)
        line_nos == sorted({k[2] : k \in DOMAIN fieldmap})
    IN  IF CellRaised(ids[1]) \/ CellRaised(ids[2])
        THEN [exc |-> "IndexError", records |-> <<>>]
        ELSE legacy_loop(ids[1], ids[2], line_nos,
                         legacy_getv(fieldmap, row, line_nos), 1, <<>>)

---------------------------------------------------------------------------
(* SpecLegacy: row_to_records applied to one header row and data row of *)
(* the same length                                                      *)

InitLegacy ==
    /\ pc = "row_to_records"
    /\ \E table \in RowTables : \E c \in RowCoords(table) : \E n \in 0..MaxCols :
       \E hs \in [1..n -> RowHdrPool(table, c)] : \E r \in [1..n -> RowCells] :
           args = [table |-> table, headers |-> hs, row |-> r]
    /\ result = NoResult
    /\ fp_round = 0
    /\ DriverAtRest

CallRowToRecords ==
    /\ pc = "row_to_records"
    /\ result' = row_to_records(args.table, args.headers, args.row)
    /\ pc' = "row_to_records_done"
    /\ UNCHANGED <<args, fp_round, driver_vars>>

NextLegacy == CallRowToRecords

SpecLegacy == InitLegacy /\ [][NextLegacy]_vars

---------------------------------------------------------------------------
(* Claims about row_to_records, checked under SpecLegacy *)

\* C19: row_to_records returns a list of records without raising for every
\* table, header set and row of equal length, also when the group 01
\* estimate of a discovered line number is null or absent.
C19_LegacyNoRaise ==
    pc = "row_to_records_done" =>
        /\ result.exc = ""
        /\ \A i \in 1..Len(result.records) : result.records[i].line_no \in RowLines

===========================================================================
